---- MODULE Spec2Model ----
(***************************************************************************)
(* The two-vector character Queue of src/main.rs (struct Queue, push, pop, *)
(* is_empty, split, new), driven by an arbitrary caller.  The state is the *)
(* queue's two fields plus the log of the calls made on it since it was    *)
(* constructed, each with its return value and the fields as the call left *)
(* them.  The free functions chop and find_extrema are applied to inputs   *)
(* drawn from bounded sets (SpecFns), and main is run statement by         *)
(* statement (SpecMain).                                                   *)
(***************************************************************************)
EXTENDS Integers, Sequences, FiniteSets, TLC

\* Bounds of the exploration.
MaxOps == 6
NumChars == 3

\* The characters the caller pushes: the ones main uses on its queues.
Alphabet == <<"P", "D", "X", "0", "1", "*">>
Chars == {Alphabet[i] : i \in 1..NumChars}

\* Option<char>: None is the empty sequence, Some(c) the one-element one.
None == <<>>
Some(c) == <<c>>
\* The unit value returned by push, and the absent argument of a call.
Unit == "()"
NoArg == "-"

VARIABLES older, younger, moved, history,
          call, result,
          pc, stdout, env, args, exit

queueVars == <<older, younger, moved, history>>
fnVars == <<call, result>>
mainVars == <<pc, stdout, env, args, exit>>

vars == <<older, younger, moved, history,
          call, result, pc, stdout, env, args, exit>>

\* The queue value `self` of the methods.
q == [older |-> older, younger |-> younger]

-----------------------------------------------------------------------------
\* Vec<char> operations the methods call.

VecIsEmpty(v) == Len(v) = 0

VecPush(v, c) == Append(v, c)

\* A pop that takes the first element instead of the last.
VecPopFront(v) ==
  IF Len(v) = 0
    THEN [vec |-> v, ret |-> None]
    ELSE [vec |-> SubSeq(v, 2, Len(v)), ret |-> Some(v[1])]

\* Vec::pop: removes the last element and returns it, None on an empty Vec.
VecPop(v) ==
  IF Len(v) = 0
    THEN [vec |-> v, ret |-> None]
    ELSE [vec |-> SubSeq(v, 1, Len(v) - 1), ret |-> Some(v[Len(v)])]

VecReverseKeep(v) == v

VecReverse(v) == [i \in 1..Len(v) |-> v[Len(v) + 1 - i]]

\* A swap that copies younger into older and leaves younger as it was.
MemSwapCopy(s) == [older |-> s.younger, younger |-> s.younger]

\* std::mem::swap(&mut self.older, &mut self.younger)
MemSwap(s) == [older |-> s.younger, younger |-> s.older]

-----------------------------------------------------------------------------
\* The methods of Queue, as functions of self.

QueueNew == [older |-> <<>>, younger |-> <<>>]

QueuePushFront(s, c) == [s EXCEPT !.younger = <<c>> \o @]

QueuePush(s, c) == [s EXCEPT !.younger = VecPush(@, c)]

\* A pop that unwraps the result of Vec::pop and so aborts on an empty queue.
QueuePopUnwrap(s) ==
  LET t == IF VecIsEmpty(s.older)
             THEN [MemSwap(s) EXCEPT !.older = VecReverse(@)]
             ELSE s
      r == VecPop(t.older)
  IN  IF r.ret = None
        THEN [q |-> t, ret |-> <<"abort">>, final |-> <<t.older>>]
        ELSE [q |-> [t EXCEPT !.older = r.vec], ret |-> r.ret,
              final |-> <<t.older>>]

\* A pop that never brings the elements of younger over to older.
QueuePopNoTransfer(s) ==
  IF VecIsEmpty(s.older) /\ VecIsEmpty(s.younger)
    THEN [q |-> s, ret |-> None, final |-> <<>>]
    ELSE LET r == VecPop(s.older)
         IN  [q |-> [s EXCEPT !.older = r.vec], ret |-> r.ret,
              final |-> <<s.older>>]

\* A pop that swaps and reverses on every call, not only when older is empty.
QueuePopAlwaysSwap(s) ==
  IF VecIsEmpty(s.older) /\ VecIsEmpty(s.younger)
    THEN [q |-> s, ret |-> None, final |-> <<>>]
    ELSE LET t == [MemSwap(s) EXCEPT !.older = VecReverse(@)]
             r == VecPop(t.older)
         IN  [q |-> [t EXCEPT !.older = r.vec], ret |-> r.ret,
              final |-> <<t.older>>]

\* pop: q is self afterwards, ret the value returned, final the contents of
\* older when the last statement `self.older.pop()` is reached (<<>> when the
\* early return is taken, <<v>> when it is reached with older = v).
QueuePop(s) ==
  IF VecIsEmpty(s.older) /\ VecIsEmpty(s.younger)
    THEN [q |-> s, ret |-> None, final |-> <<>>]
    ELSE LET t == IF VecIsEmpty(s.older)
                    THEN [MemSwap(s) EXCEPT !.older = VecReverse(@)]
                    ELSE s
             r == VecPop(t.older)
         IN  [q |-> [t EXCEPT !.older = r.vec], ret |-> r.ret,
              final |-> <<t.older>>]

QueueIsEmptyOlderOnly(s) == VecIsEmpty(s.older)

QueueIsEmpty(s) == VecIsEmpty(s.older) /\ VecIsEmpty(s.younger)

QueueSplitSwapped(s) == <<s.younger, s.older>>

QueueSplit(s) == <<s.older, s.younger>>

-----------------------------------------------------------------------------
\* The log of calls.

Entry(op, arg, ret, s, final) ==
  [op |-> op, arg |-> arg, ret |-> ret,
   older |-> s.older, younger |-> s.younger, final |-> final]

\* No free function is being applied.
FnsIdle == call = [fn |-> "none"] /\ result = <<>>

\* main is not running.
MainIdle ==
  pc = 0 /\ stdout = <<>> /\ env = <<>> /\ args = <<>> /\ exit = <<>>

\* A queue as constructed, no call made on it yet.
QueueFresh ==
  /\ older = QueueNew.older
  /\ younger = QueueNew.younger
  /\ moved = FALSE
  /\ history = <<Entry("new", NoArg, Unit, QueueNew, <<>>)>>

Init == QueueFresh /\ FnsIdle /\ MainIdle

\* let mut q = Queue::new(): a fresh queue replaces whatever q held.
New ==
  /\ older' = QueueNew.older
  /\ younger' = QueueNew.younger
  /\ moved' = FALSE
  /\ history' = <<Entry("new", NoArg, Unit, QueueNew, <<>>)>>
  /\ UNCHANGED <<fnVars, mainVars>>

\* q.push(c)
Push ==
  /\ ~moved
  /\ Len(history) <= MaxOps
  /\ \E c \in Chars :
       LET s == QueuePush(q, c)
       IN  /\ older' = s.older
           /\ younger' = s.younger
           /\ history' = Append(history, Entry("push", c, Unit, s, <<>>))
  /\ UNCHANGED moved
  /\ UNCHANGED <<fnVars, mainVars>>

\* q.pop()
Pop ==
  /\ ~moved
  /\ Len(history) <= MaxOps
  /\ LET r == QueuePop(q)
     IN  /\ older' = r.q.older
         /\ younger' = r.q.younger
         /\ history' = Append(history,
                              Entry("pop", NoArg, r.ret, r.q, r.final))
  /\ UNCHANGED moved
  /\ UNCHANGED <<fnVars, mainVars>>

\* An is_empty that drains younger while it looks.
IsEmptyDraining ==
  /\ ~moved
  /\ Len(history) <= MaxOps
  /\ older' = older
  /\ younger' = <<>>
  /\ history' = Append(history,
                       Entry("is_empty", NoArg, QueueIsEmpty(q),
                             [older |-> older, younger |-> <<>>], <<>>))
  /\ UNCHANGED moved
  /\ UNCHANGED <<fnVars, mainVars>>

\* q.is_empty(): takes &self, so the fields are not written.
IsEmpty ==
  /\ ~moved
  /\ Len(history) <= MaxOps
  /\ history' = Append(history,
                       Entry("is_empty", NoArg, QueueIsEmpty(q), q, <<>>))
  /\ UNCHANGED <<older, younger, moved>>
  /\ UNCHANGED <<fnVars, mainVars>>

\* q.split(): takes self by value; q is moved from and unusable afterwards.
Split ==
  /\ ~moved
  /\ Len(history) <= MaxOps
  /\ moved' = TRUE
  /\ history' = Append(history, Entry("split", NoArg, QueueSplit(q), q, <<>>))
  /\ UNCHANGED <<older, younger>>
  /\ UNCHANGED <<fnVars, mainVars>>

Next == New \/ Push \/ Pop \/ IsEmpty \/ Split

Spec == Init /\ [][Next]_vars

-----------------------------------------------------------------------------
\* The free functions find_extrema and chop.

\* Bounds of the inputs.
MaxLen == 5
MaxHeight == 3

\* A String is the sequence of its characters.
StrHokey == <<"H", "o", "k", "e", "y">>
StrI == <<" ", "I">>
StrII == <<" ", "I", "I">>

\* String::push_str and String::clone
PushStr(s, t) == s \o t
Clone(s) == s

\* slice[i], i counted from 0 as in the source.
At(slice, i) == slice[i + 1]

\* The panic of an index out of bounds.
Panic == [panic |-> "index out of bounds"]

\* A loop that starts at index 2 and never looks at slice[1].
RECURSIVE ExtremaLoopFromTwo(_, _, _, _)
ExtremaLoopFromTwo(slice, i, greatest, least) ==
  LET k == IF i = 1 THEN 2 ELSE i
  IN  IF k >= Len(slice)
        THEN [greatest |-> greatest, least |-> least]
        ELSE LET l == IF At(slice, k) < At(slice, least) THEN k ELSE least
                 g == IF At(slice, k) > At(slice, greatest)
                        THEN k ELSE greatest
             IN  ExtremaLoopFromTwo(slice, k + 1, g, l)

\* for i in 1..slice.len() { ... }: greatest and least are references into
\* the slice, held here as the index they point at.
RECURSIVE ExtremaLoop(_, _, _, _)
ExtremaLoop(slice, i, greatest, least) ==
  IF i >= Len(slice)
    THEN [greatest |-> greatest, least |-> least]
    ELSE LET l == IF At(slice, i) < At(slice, least) THEN i ELSE least
             g == IF At(slice, i) > At(slice, greatest) THEN i ELSE greatest
         IN  ExtremaLoop(slice, i + 1, g, l)

\* find_extrema: &slice[0] panics on an empty slice.
FindExtrema(slice) ==
  IF Len(slice) = 0 THEN Panic ELSE ExtremaLoop(slice, 1, 0, 0)

\* *e.least, *e.greatest: the element a reference of the result points at.
Deref(slice, r) == At(slice, r)

\* A chop whose second broom keeps the first one's finished name.
ChopSameName(b) ==
  LET broom1 == [b EXCEPT !.height = b.height \div 2]
      named1 == [broom1 EXCEPT !.name = PushStr(@, StrI)]
      broom2 == [named1 EXCEPT !.name = Clone(named1.name)]
  IN  <<named1, [broom2 EXCEPT !.name = PushStr(@, StrII)]>>

\* chop: broom1 is b with height halved, broom2 is broom1 with a cloned
\* name, then each name gets its suffix.
Chop(b) ==
  LET broom1 == [b EXCEPT !.height = b.height \div 2]
      broom2 == [broom1 EXCEPT !.name = Clone(broom1.name)]
  IN  <<[broom1 EXCEPT !.name = PushStr(@, StrI)],
        [broom2 EXCEPT !.name = PushStr(@, StrII)]>>

\* let hokey = Broom { ... }
Hokey ==
  [name |-> StrHokey, height |-> 60, health |-> 100,
   position |-> <<100, 200, 0>>, intent |-> "FetchWater"]

\* let a = [0, -3, 0, 15, 48]
ArrayA == <<0, -3, 0, 15, 48>>

\* The inputs the functions are applied to.
ExtremaVals == {-3, 0, 15, 48}

Slices == UNION {[1..n -> ExtremaVals] : n \in 0..MaxLen}

Brooms ==
  [name : {StrHokey, <<>>, <<"I">>},
   height : (0..MaxHeight) \cup {60, 61},
   health : {0, 100},
   position : {<<100, 200, 0>>, <<0, 0, 0>>},
   intent : {"FetchWater", "DumpWater"}]

InitFns ==
  /\ QueueFresh
  /\ MainIdle
  /\ call \in [fn : {"find_extrema"}, arg : Slices]
              \cup [fn : {"chop"}, arg : Brooms]
  /\ result = <<>>

\* let e = find_extrema(&slice)
CallFindExtrema ==
  /\ call.fn = "find_extrema"
  /\ result = <<>>
  /\ result' = <<FindExtrema(call.arg)>>
  /\ UNCHANGED <<call, queueVars, mainVars>>

\* let (b1, b2) = chop(b)
CallChop ==
  /\ call.fn = "chop"
  /\ result = <<>>
  /\ result' = <<Chop(call.arg)>>
  /\ UNCHANGED <<call, queueVars, mainVars>>

NextFns == CallFindExtrema \/ CallChop

SpecFns == InitFns /\ [][NextFns]_vars

-----------------------------------------------------------------------------
\* fn main(): its statements in the order they run, named by source line.

\* Bound of the command lines main is started with.
MaxArgs == 2

ArgWords == {"--help", "x"}
ArgLists == UNION {[1..n -> ArgWords] : n \in 0..MaxArgs}

MainLines ==
  <<4, 28, 29, 30, 44, 45, 95, 103, 104, 105, 107, 108, 118, 121, 144,
    215, 217, 218, 219, 221, 222, 223, 224, 236, 237, 238,
    248, 250, 251, 252, 253, 255, 257, 258, 270, 272,
    320, 323, 324, 326, 327, 328, 329, 359, 360, 361, 362>>

PrintLines == {4}
AssertLines ==
  {44, 45, 104, 105, 107, 108, 121, 219, 222, 223, 224, 236, 238, 252,
   257, 258, 361, 362}
CallLines == {217, 218, 221, 237, 250, 251, 253, 272, 326, 327, 328, 329}
LetLines ==
  {28, 29, 30, 95, 103, 118, 144, 215, 248, 255, 270, 320, 323, 324,
   359, 360}

\* The characters main pushes that are not plain ASCII.
CharInfinity == "U+221E"
CharSun == "U+2609"

\* A local that has been moved out of.
Moved == "moved"

\* let name = value, or an assignment through &mut.
Bind(e, name, value) == (name :> value) @@ e

\* vec![elem; len], kept as its element and length.
VecRepeat(elem, len) == [elem |-> elem, len |-> len]

\* println!: one line written to standard output.
Println(out, text) == Append(out, text)

\* The locals after the statement at `line` has run with locals e.
Effect(line, e) ==
  CASE line = 28 -> Bind(e, "width", 1024)
    [] line = 29 -> Bind(e, "height", 576)
    [] line = 30 ->
         Bind(e, "image",
              [pixels |-> VecRepeat(0, e["width"] * e["height"]),
               size |-> <<e["width"], e["height"]>>])
    [] line = 95 -> Bind(e, "hokey", Hokey)
    [] line = 103 ->
         Bind(Bind(Bind(e, "hokey1", Chop(e["hokey"])[1]),
                   "hokey2", Chop(e["hokey"])[2]),
              "hokey", Moved)
    [] line = 118 -> Bind(e, "image_bounds", <<1024, 768>>)
    [] line = 144 -> Bind(e, "o", "Onesuch")
    [] line \in {215, 248} ->
         Bind(e, "q", [older |-> <<>>, younger |-> <<>>])
    [] line = 217 -> Bind(e, "q", QueuePush(e["q"], "0"))
    [] line = 218 -> Bind(e, "q", QueuePush(e["q"], "1"))
    [] line \in {219, 222, 223, 224, 252} ->
         Bind(e, "q", QueuePop(e["q"]).q)
    [] line = 221 -> Bind(e, "q", QueuePush(e["q"], CharInfinity))
    [] line = 237 -> Bind(e, "q", QueuePush(e["q"], CharSun))
    [] line = 250 -> Bind(e, "q", QueuePush(e["q"], "P"))
    [] line = 251 -> Bind(e, "q", QueuePush(e["q"], "D"))
    [] line = 253 -> Bind(e, "q", QueuePush(e["q"], "X"))
    [] line = 255 ->
         Bind(Bind(Bind(e, "older", QueueSplit(e["q"])[1]),
                   "younger", QueueSplit(e["q"])[2]),
              "q", Moved)
    [] line \in {270, 320, 323} -> Bind(e, "q", QueueNew)
    [] line = 272 -> Bind(e, "q", QueuePush(e["q"], "*"))
    [] line = 324 -> Bind(e, "r", QueueNew)
    [] line = 326 -> Bind(e, "q", QueuePush(e["q"], "CAD"))
    [] line = 327 -> Bind(e, "r", QueuePush(e["r"], "0.74"))
    [] line = 328 -> Bind(e, "q", QueuePush(e["q"], "BTC"))
    [] line = 329 -> Bind(e, "r", QueuePush(e["r"], "2737.7"))
    [] line = 359 -> Bind(e, "a", ArrayA)
    [] line = 360 -> Bind(e, "e", FindExtrema(e["a"]))
    [] OTHER -> e

\* The statement at `line`, run with locals e, does not panic: its
\* assertion holds, its index is in bounds.
Holds(line, e) ==
  CASE line = 44 -> e["image"].size = <<1024, 576>>
    [] line = 45 -> e["image"].pixels.len = 1024 * 576
    [] line = 104 -> e["hokey1"].name = StrHokey \o <<" ", "I">>
    [] line = 105 -> e["hokey1"].health = 100
    [] line = 107 -> e["hokey2"].name = StrHokey \o <<" ", "I", "I">>
    [] line = 108 -> e["hokey2"].health = 100
    [] line = 121 -> e["image_bounds"][1] * e["image_bounds"][2] = 786432
    [] line = 219 -> QueuePop(e["q"]).ret = Some("0")
    [] line = 222 -> QueuePop(e["q"]).ret = Some("1")
    [] line = 223 -> QueuePop(e["q"]).ret = Some(CharInfinity)
    [] line = 224 -> QueuePop(e["q"]).ret = None
    [] line = 236 -> QueueIsEmpty(e["q"])
    [] line = 238 -> ~QueueIsEmpty(e["q"])
    [] line = 252 -> QueuePop(e["q"]).ret = Some("P")
    [] line = 257 -> e["older"] = <<"D">>
    [] line = 258 -> e["younger"] = <<"X">>
    [] line = 360 -> Len(e["a"]) > 0
    [] line = 361 -> Deref(e["a"], e["e"].least) = -3
    [] line = 362 -> Deref(e["a"], e["e"].greatest) = 48
    [] OTHER -> TRUE

Running == exit = <<>> /\ pc \in 1..Len(MainLines)

\* One statement other than println!: it runs, or it panics and the process
\* exits with the status of a panic.
Execute(line) ==
  IF Holds(line, env)
    THEN env' = Effect(line, env) /\ pc' = pc + 1 /\ UNCHANGED exit
    ELSE exit' = <<101>> /\ UNCHANGED <<env, pc>>

InitMain ==
  /\ QueueFresh
  /\ FnsIdle
  /\ pc = 1
  /\ stdout = <<>>
  /\ env = <<>>
  /\ args \in ArgLists
  /\ exit = <<>>

MainPrint ==
  /\ Running
  /\ MainLines[pc] \in PrintLines
  /\ stdout' = Println(stdout, "Hello, world!")
  /\ pc' = pc + 1
  /\ UNCHANGED <<env, args, exit, queueVars, fnVars>>

MainLet ==
  /\ Running
  /\ MainLines[pc] \in LetLines
  /\ Execute(MainLines[pc])
  /\ UNCHANGED <<stdout, args, queueVars, fnVars>>

MainCall ==
  /\ Running
  /\ MainLines[pc] \in CallLines
  /\ Execute(MainLines[pc])
  /\ UNCHANGED <<stdout, args, queueVars, fnVars>>

MainAssert ==
  /\ Running
  /\ MainLines[pc] \in AssertLines
  /\ Execute(MainLines[pc])
  /\ UNCHANGED <<stdout, args, queueVars, fnVars>>

\* The end of main: the process exits with status 0.
MainReturn ==
  /\ exit = <<>>
  /\ pc = Len(MainLines) + 1
  /\ exit' = <<0>>
  /\ UNCHANGED <<pc, stdout, env, args, queueVars, fnVars>>

NextMain == MainPrint \/ MainLet \/ MainCall \/ MainAssert \/ MainReturn

\* main runs alone and to its end: a step that can be taken is taken.
SpecMain == InitMain /\ [][NextMain]_vars /\ WF_vars(NextMain)

-----------------------------------------------------------------------------
\* What the log says about the queue.

Rev(s) == [i \in 1..Len(s) |-> s[Len(s) + 1 - i]]

IsPrefix(s, t) == Len(s) <= Len(t) /\ s = SubSeq(t, 1, Len(s))

\* The values pushed, in push order.
Pushed(h) ==
  LET ps == SelectSeq(h, LAMBDA e : e.op = "push")
  IN  [i \in 1..Len(ps) |-> ps[i].arg]

\* The values returned by the pops that returned Some, in pop order.
Popped(h) ==
  LET ps == SelectSeq(h, LAMBDA e : e.op = "pop" /\ e.ret # None)
  IN  [i \in 1..Len(ps) |-> ps[i].ret[1]]

\* The pushed values not yet returned by a pop, front of the queue first.
Pending(h) == SubSeq(Pushed(h), Len(Popped(h)) + 1, Len(Pushed(h)))

\* The log is new(), n pushes, then exactly n pops.
PushesThenPops(h, n) ==
  /\ Len(h) = 2 * n + 1
  /\ \A i \in 1..n : h[1 + i].op = "push" /\ h[1 + n + i].op = "pop"

\* The fields before call i of the log (call 1 is new()).
PreOlder(h, i) == h[i - 1].older
PreYounger(h, i) == h[i - 1].younger
PreEmpty(h, i) == PreOlder(h, i) = <<>> /\ PreYounger(h, i) = <<>>

\* C1: n pushes p1..pn on an empty queue followed by exactly n pops make the
\* i-th pop return Some(pi), for every n and every i in 1..n.
C1_FifoPushesThenPops ==
  \A n \in 0..MaxOps :
    PushesThenPops(history, n) =>
      \A i \in 1..n : history[1 + n + i].ret = Some(history[1 + i].arg)

C1_Witness ==
  /\ PushesThenPops(history, 3)
  /\ Cardinality({history[2].arg, history[3].arg, history[4].arg}) = 3

\* C2: under every interleaving of pushes and pops, the values returned by
\* the successful pops are a prefix of the pushed values in push order.
C2_PoppedPrefixOfPushed == IsPrefix(Popped(history), Pushed(history))

\* Two pushes, a pop that transfers, a push between pops, then both the
\* transferred and the later pushed value are popped.
C2_Witness ==
  /\ Len(history) = 7
  /\ history[2].op = "push" /\ history[3].op = "push"
  /\ history[4].op = "pop" /\ history[4].older # <<>>
  /\ history[5].op = "push" /\ history[5].arg # history[3].arg
  /\ history[6].op = "pop" /\ history[7].op = "pop"
  /\ Len(Popped(history)) = 3

\* C3 as stated: the queue order front to back is older reversed followed
\* by younger reversed.
C3_OrderYoungerReversed == Pending(history) = Rev(older) \o Rev(younger)

\* C3 as amended: the queue order front to back is older reversed followed
\* by younger as it stands (younger holds its elements youngest last).
C3_OrderOlderReversedThenYounger == Pending(history) = Rev(older) \o younger

C3_Witness ==
  /\ Len(older) >= 2 /\ older[1] # older[2]
  /\ Len(younger) >= 2 /\ younger[1] # younger[2]

\* C4: pop on a queue whose older and younger are both empty returns None
\* and leaves both empty, for any number of consecutive pops.
C4_PopOnEmptyReturnsNone ==
  \A i \in 2..Len(history) : \A j \in i..Len(history) :
    (PreEmpty(history, i) /\ \A k \in i..j : history[k].op = "pop") =>
      /\ history[j].ret = None
      /\ history[j].older = <<>>
      /\ history[j].younger = <<>>

\* Three pops in a row on a queue that was filled and drained before.
C4_Witness ==
  \E i \in 3..Len(history) - 2 :
    /\ PreEmpty(history, i)
    /\ Len(Pushed(history)) >= 1
    /\ \A k \in i..i + 2 : history[k].op = "pop" /\ history[k].ret = None

\* C5: pop returns Some(c) exactly when the queue held an element before the
\* call and None exactly when it was empty; whenever the final
\* `self.older.pop()` is reached, older is not empty.
C5_PopSomeIffNonEmpty ==
  \A i \in 2..Len(history) :
    history[i].op = "pop" =>
      /\ history[i].ret = None \/ \E c \in Chars : history[i].ret = Some(c)
      /\ (history[i].ret # None) <=> ~PreEmpty(history, i)
      /\ (history[i].ret = None) <=> PreEmpty(history, i)
      /\ history[i].final # <<>> => history[i].final[1] # <<>>

\* A pop that transfers, a pop served from older, and a pop on empty.
C5_Witness ==
  \E i, j, k \in 2..Len(history) :
    /\ history[i].op = "pop" /\ PreOlder(history, i) = <<>>
    /\ PreYounger(history, i) # <<>> /\ history[i].final # <<>>
    /\ history[j].op = "pop" /\ PreOlder(history, j) # <<>>
    /\ history[k].op = "pop" /\ history[k].ret = None

\* C6: is_empty() returns true iff older and younger are both empty, which
\* is iff the number of pushes equals the number of successful pops.
C6_IsEmptyIffBothEmpty ==
  /\ (older = <<>> /\ younger = <<>>)
       <=> (Len(Pushed(history)) = Len(Popped(history)))
  /\ \A i \in 2..Len(history) :
       history[i].op = "is_empty" =>
         /\ history[i].ret = TRUE <=> PreEmpty(history, i)
         /\ history[i].ret = TRUE <=>
              LET h == SubSeq(history, 1, i - 1)
              IN  Len(Pushed(h)) = Len(Popped(h))

\* is_empty() answers false with older empty and younger not, and true
\* after as many successful pops as pushes.
C6_Witness ==
  \E i, j \in 2..Len(history) :
    /\ history[i].op = "is_empty" /\ history[i].ret = FALSE
    /\ PreOlder(history, i) = <<>>
    /\ history[j].op = "is_empty" /\ history[j].ret = TRUE
    /\ Len(Pushed(SubSeq(history, 1, j))) >= 1

\* C7: new() yields older and younger both empty; is_empty() is true right
\* after new(), true right after the pop that removes the last element, and
\* false right after any push.
C7_IsEmptyAfterNewLastPopPush ==
  /\ history[1].op = "new"
  /\ history[1].older = <<>> /\ history[1].younger = <<>>
  /\ \A i \in 2..Len(history) :
       history[i].op = "is_empty" =>
         /\ history[i - 1].op = "new" => history[i].ret = TRUE
         /\ ( /\ history[i - 1].op = "pop"
              /\ history[i - 1].ret # None
              /\ Len(PreOlder(history, i - 1))
                   + Len(PreYounger(history, i - 1)) = 1 )
              => history[i].ret = TRUE
         /\ history[i - 1].op = "push" => history[i].ret = FALSE

C7_Witness ==
  /\ Len(history) >= 6
  /\ history[2].op = "is_empty"
  /\ history[3].op = "push" /\ history[4].op = "is_empty"
  /\ history[5].op = "pop" /\ history[6].op = "is_empty"

\* The calls of a log other than is_empty, with what each returned and left.
Visible(h) ==
  LET hs == SelectSeq(h, LAMBDA e : e.op # "is_empty")
  IN  [i \in 1..Len(hs) |->
        [op |-> hs[i].op, arg |-> hs[i].arg, ret |-> hs[i].ret,
         older |-> hs[i].older, younger |-> hs[i].younger]]

\* One call of the log made on queue s: the queue afterwards and the result.
Call(s, e) ==
  CASE e.op = "new" -> [q |-> QueueNew, ret |-> Unit]
    [] e.op = "push" -> [q |-> QueuePush(s, e.arg), ret |-> Unit]
    [] e.op = "pop" -> [q |-> QueuePop(s).q, ret |-> QueuePop(s).ret]
    [] e.op = "split" -> [q |-> s, ret |-> QueueSplit(s)]

\* The same calls made one after the other starting from queue s.
RECURSIVE Run(_, _)
Run(s, calls) ==
  IF calls = <<>>
    THEN <<>>
    ELSE LET e == Head(calls)
             r == Call(s, e)
         IN  <<[op |-> e.op, arg |-> e.arg, ret |-> r.ret,
                older |-> r.q.older, younger |-> r.q.younger]>>
             \o Run(r.q, Tail(calls))

\* C8: is_empty() leaves older and younger as they were, consecutive calls
\* of it return the same value, and every other call returns and leaves what
\* it would have had is_empty() never been called.
C8_IsEmptyChangesNothing ==
  /\ \A i \in 2..Len(history) :
       history[i].op = "is_empty" =>
         /\ history[i].older = PreOlder(history, i)
         /\ history[i].younger = PreYounger(history, i)
  /\ \A i \in 2..Len(history) : \A j \in i..Len(history) :
       (\A k \in i..j : history[k].op = "is_empty") =>
         history[j].ret = history[i].ret
  /\ Visible(history) = Run(QueueNew, Visible(history))

\* Two is_empty() calls in a row on a queue with something in younger,
\* followed by a pop and a split.
C8_Witness ==
  \E i \in 3..Len(history) - 3 :
    /\ history[i].op = "is_empty" /\ history[i + 1].op = "is_empty"
    /\ PreYounger(history, i) # <<>>
    /\ history[i + 2].op = "pop" /\ history[i + 3].op = "split"

\* The calls of the log as <<op, arg>> pairs.
Calls(h) == [i \in 1..Len(h) |-> <<h[i].op, h[i].arg>>]

\* C9: split() returns the pair (older, younger) exactly as the two fields
\* stand at the call; after push('P'), push('D'), pop(), push('X') on an
\* empty queue the pop returned 'P' and split() returns (['D'], ['X']).
C9_SplitReturnsFieldsAsIs ==
  /\ \A i \in 2..Len(history) :
       history[i].op = "split" =>
         history[i].ret = <<PreOlder(history, i), PreYounger(history, i)>>
  /\ Calls(history) = << <<"new", NoArg>>, <<"push", "P">>, <<"push", "D">>,
                         <<"pop", NoArg>>, <<"push", "X">>,
                         <<"split", NoArg>> >>
       => /\ history[4].ret = Some("P")
          /\ history[6].ret = << <<"D">>, <<"X">> >>

C9_Witness ==
  /\ moved
  /\ Calls(history) = << <<"new", NoArg>>, <<"push", "P">>, <<"push", "D">>,
                         <<"pop", NoArg>>, <<"push", "X">>,
                         <<"split", NoArg>> >>

\* C10: push(value) can be called in every state of a live queue, returns
\* normally, makes younger its previous contents with value appended at the
\* end, and leaves older unchanged.
C10_PushAppendsToYounger ==
  /\ (~moved /\ Len(history) <= MaxOps) => ENABLED Push
  /\ \A i \in 2..Len(history) :
       history[i].op = "push" =>
         /\ history[i].ret = Unit
         /\ history[i].younger
              = Append(PreYounger(history, i), history[i].arg)
         /\ history[i].older = PreOlder(history, i)

\* A push onto a queue with elements in both vectors, of a value other
\* than the one last in younger.
C10_Witness ==
  \E i \in 3..Len(history) :
    /\ history[i].op = "push"
    /\ PreOlder(history, i) # <<>>
    /\ PreYounger(history, i) # <<>>
    /\ history[i].arg # PreYounger(history, i)[Len(PreYounger(history, i))]

\* C11: pop called with older non-empty removes and returns the last element
\* of older, keeps the rest of older in order and leaves younger unchanged.
C11_PopFromOlder ==
  \A i \in 2..Len(history) :
    (history[i].op = "pop" /\ PreOlder(history, i) # <<>>) =>
      LET o == PreOlder(history, i)
      IN  /\ history[i].ret = Some(o[Len(o)])
          /\ history[i].older = SubSeq(o, 1, Len(o) - 1)
          /\ history[i].younger = PreYounger(history, i)

\* A pop on a queue with two different elements in older and some in younger.
C11_Witness ==
  \E i \in 2..Len(history) :
    /\ history[i].op = "pop"
    /\ Len(PreOlder(history, i)) >= 2
    /\ PreOlder(history, i)[1] # PreOlder(history, i)[2]
    /\ PreYounger(history, i) # <<>>

\* The transfer in the order the specification words it: reverse younger,
\* swap it into older, clear younger.
ReverseSwapClear(s) ==
  LET reversed == [s EXCEPT !.younger = Rev(@)]
      swapped == [older |-> reversed.younger, younger |-> reversed.older]
  IN  [swapped EXCEPT !.younger = <<>>]

\* C12: pop called with older empty and younger = [y1..yk], k >= 1, returns
\* Some(y1) and leaves younger empty and older = [yk, ..., y2]; swapping and
\* then reversing older gives what reversing younger, swapping it into older
\* and clearing younger gives.
C12_PopTransfers ==
  \A i \in 2..Len(history) :
    ( /\ history[i].op = "pop"
      /\ PreOlder(history, i) = <<>>
      /\ PreYounger(history, i) # <<>> ) =>
      LET y == PreYounger(history, i)
          k == Len(y)
          pre == [older |-> PreOlder(history, i), younger |-> y]
      IN  /\ history[i].ret = Some(y[1])
          /\ history[i].younger = <<>>
          /\ history[i].older = [j \in 1..k - 1 |-> y[k + 1 - j]]
          /\ history[i].final = <<ReverseSwapClear(pre).older>>
          /\ history[i].younger = ReverseSwapClear(pre).younger

\* A transferring pop with three different elements in younger.
C12_Witness ==
  \E i \in 2..Len(history) :
    /\ history[i].op = "pop"
    /\ PreOlder(history, i) = <<>>
    /\ Len(PreYounger(history, i)) = 3
    /\ Cardinality({PreYounger(history, i)[j] : j \in 1..3}) = 3

Elems(s) == {s[i] : i \in 1..Len(s)}

\* Pairwise different pushed values: a value then names one element.
DistinctPushes(h) == Cardinality(Elems(Pushed(h))) = Len(Pushed(h))

\* C13: older gains elements only in a pop called with older empty, which
\* takes all of younger; younger gains only the value of a push, so nothing
\* goes back from older to younger; each element leaves younger for older at
\* most once.
C13_TransferAtMostOnce ==
  /\ \A i \in 2..Len(history) :
       /\ \/ IsPrefix(history[i].older, PreOlder(history, i))
          \/ /\ history[i].op = "pop"
             /\ PreOlder(history, i) = <<>>
             /\ history[i].younger = <<>>
       /\ \/ history[i].younger = PreYounger(history, i)
          \/ /\ history[i].op = "push"
             /\ history[i].younger
                  = Append(PreYounger(history, i), history[i].arg)
          \/ /\ history[i].op = "pop"
             /\ PreOlder(history, i) = <<>>
             /\ history[i].younger = <<>>
  /\ DistinctPushes(history) =>
       \A c \in Chars :
         /\ Cardinality({i \in 2..Len(history) :
                           /\ c \in Elems(PreYounger(history, i))
                           /\ c \notin Elems(history[i].younger)}) <= 1
         /\ \A i \in 2..Len(history) : \A j \in i..Len(history) :
              c \in Elems(PreOlder(history, i)) =>
                c \notin Elems(history[j].younger)

\* A transfer of two elements, a pop served from older while younger holds
\* a newer element, then a second transfer; all pushed values different.
C13_Witness ==
  /\ DistinctPushes(history)
  /\ \E i, j, k \in 2..Len(history) :
       /\ i < j /\ j < k
       /\ history[i].op = "pop" /\ PreOlder(history, i) = <<>>
       /\ Len(PreYounger(history, i)) = 2
       /\ history[j].op = "pop" /\ PreOlder(history, j) # <<>>
       /\ PreYounger(history, j) # <<>>
       /\ history[k].op = "pop" /\ PreOlder(history, k) = <<>>
       /\ PreYounger(history, k) # <<>>

C16_EldestLastYoungestLast ==
  LET n == Len(Popped(history))
      p == Pushed(history)
  IN  /\ Len(older) + Len(younger) = Len(p) - n
      /\ \A i \in 1..Len(older) : older[i] = p[n + Len(older) + 1 - i]
      /\ \A j \in 1..Len(younger) : younger[j] = p[n + Len(older) + j]

\* Two elements in older and two in younger after one element was popped,
\* neighbours different.
C16_Witness ==
  /\ Len(Popped(history)) >= 1
  /\ Len(older) = 2 /\ older[1] # older[2]
  /\ Len(younger) = 2 /\ younger[1] # younger[2]
  /\ older[1] # younger[1]

Count(c, s) == Cardinality({i \in 1..Len(s) : s[i] = c})

\* C19: the number of elements held is the number of pushes minus the number
\* of pops that returned Some, and the elements held are, with multiplicity,
\* the pushed values not yet returned by a pop.
C19_ElementsConserved ==
  /\ Len(older) + Len(younger)
       = Len(Pushed(history)) - Len(Popped(history))
  /\ \A c \in Chars :
       Count(c, older) + Count(c, younger)
         = Count(c, Pushed(history)) - Count(c, Popped(history))
  /\ \A i \in 1..Len(Popped(history)) :
       Popped(history)[i] \in Elems(Pushed(history))

\* After a transfer: a value held twice, one copy in older and one in
\* younger, and one value already returned.
C19_Witness ==
  /\ Len(Popped(history)) >= 1
  /\ \E c \in Chars : Count(c, older) >= 1 /\ Count(c, younger) >= 1
  /\ Len(older) + Len(younger) >= 3

\* C20: in a run of consecutive pops started on a queue holding k elements,
\* exactly the first k return Some, the queue is empty after the k-th, and
\* every later pop returns None and leaves it empty.
C20_DrainByPops ==
  \A i \in 2..Len(history) : \A j \in i..Len(history) :
    (\A m \in i..j : history[m].op = "pop") =>
      LET k == Len(PreOlder(history, i)) + Len(PreYounger(history, i))
          nth == j - i + 1
          left == Len(history[j].older) + Len(history[j].younger)
      IN  /\ (history[j].ret # None) <=> (nth <= k)
          /\ nth <= k => left = k - nth
          /\ nth >= k => left = 0
          /\ nth = k =>
               Popped(SubSeq(history, 1, j))
                 = Pushed(SubSeq(history, 1, j))

\* A queue holding two elements is drained by two pops and two more pops
\* follow.
C20_Witness ==
  \E i \in 2..Len(history) - 3 :
    /\ Len(PreOlder(history, i)) + Len(PreYounger(history, i)) = 2
    /\ \A m \in i..i + 3 : history[m].op = "pop"
    /\ history[i + 1].ret # None
    /\ history[i + 3].ret = None

-----------------------------------------------------------------------------
\* The free functions.

Min(S) == CHOOSE x \in S : \A y \in S : x <= y
Max(S) == CHOOSE x \in S : \A y \in S : x >= y

\* C17: for every non-empty slice find_extrema returns an Extrema whose
\* least is the minimum and whose greatest is the maximum of the slice; for
\* [0, -3, 0, 15, 48] least = -3 and greatest = 48.
C17_FindExtremaMinMax ==
  (call.fn = "find_extrema" /\ result # <<>> /\ Len(call.arg) >= 1) =>
    LET slice == call.arg
        e == result[1]
    IN  /\ DOMAIN e = {"greatest", "least"}
        /\ Deref(slice, e.least) = Min(Elems(slice))
        /\ Deref(slice, e.greatest) = Max(Elems(slice))
        /\ slice = <<0, -3, 0, 15, 48>> =>
             Deref(slice, e.least) = -3 /\ Deref(slice, e.greatest) = 48

\* find_extrema has returned for the slice of main.
C17_Witness ==
  /\ call.fn = "find_extrema"
  /\ result # <<>>
  /\ call.arg = <<0, -3, 0, 15, 48>>

\* C18: chop(b) returns (b1, b2) with b1.name = b.name + " I",
\* b2.name = b.name + " II", both heights b.height / 2 and health, position
\* and intent as in b; "Hokey" with health 100 gives "Hokey I" and
\* "Hokey II", health 100 each.
C18_ChopHalves ==
  (call.fn = "chop" /\ result # <<>>) =>
    LET b == call.arg
        b1 == result[1][1]
        b2 == result[1][2]
    IN  /\ b1.name = b.name \o <<" ", "I">>
        /\ b2.name = b.name \o <<" ", "I", "I">>
        /\ b1.height = b.height \div 2 /\ b2.height = b.height \div 2
        /\ b1.height * 2 <= b.height /\ b.height < b1.height * 2 + 2
        /\ b1.health = b.health /\ b2.health = b.health
        /\ b1.position = b.position /\ b2.position = b.position
        /\ b1.intent = b.intent /\ b2.intent = b.intent
        /\ (b.name = <<"H", "o", "k", "e", "y">> /\ b.health = 100) =>
             /\ b1.name = <<"H", "o", "k", "e", "y", " ", "I">>
             /\ b2.name = <<"H", "o", "k", "e", "y", " ", "I", "I">>
             /\ b1.health = 100 /\ b2.health = 100

\* chop has returned for the broom of main.
C18_Witness ==
  /\ call.fn = "chop"
  /\ result # <<>>
  /\ call.arg = Hokey

-----------------------------------------------------------------------------
\* The entry program.

\* Nothing is written but the one line, it is written by the first
\* statement, no statement panics, and a finished run has status 0.
MainOk ==
  /\ stdout = <<>> \/ stdout = <<"Hello, world!">>
  /\ pc = 1 => stdout = <<>> /\ env = <<>>
  /\ pc > 1 => stdout = <<"Hello, world!">>
  /\ exit # <<101>>
  /\ exit # <<>> => exit = <<0>> /\ pc = Len(MainLines) + 1

====
